---- MODULE Spec2Model ----
(***************************************************************************)
(* Model of src/app.py: the "Analizza Ora" run of the RSI / moving-average *)
(* Streamlit script.  One run fetches the daily history of an asset from   *)
(* the provider, computes RSI(9), SMA50 and SMA100, trims the rows without *)
(* data, fetches the live price, classifies every retained day, counts     *)
(* events, builds the monthly table and the interaction log, and resolves  *)
(* the live signal.                                                        *)
(*                                                                         *)
(* Numbers.  Prices are whole numbers of the quote currency.  Sums over a  *)
(* rolling window stand for the rolling means: avg_gain / avg_loss is the  *)
(* quotient of the two window sums (the common divisor cancels) and a      *)
(* comparison Close > SMA is Close * window > window sum.  An RSI value is *)
(* held in hundredths (the code rounds it to 2 decimals before it is used  *)
(* anywhere), so RSI < 30 reads v < 3000.  Timestamps are held in seconds  *)
(* (point[0] / 1000 of the code): TLC's integers are 32 bits wide and an   *)
(* epoch-millisecond value of this century does not fit.                   *)
(***************************************************************************)
EXTENDS Integers, Sequences, FiniteSets

VARIABLES market, pc, crypto_id, calls, errors, shown, raw, df, live_price, out

vars == <<market, pc, crypto_id, calls, errors, shown, raw, df, live_price, out>>

(***************************************************************************)
(* Program constants                                                       *)
(***************************************************************************)
RSI_PERIOD == 9
SMA_SHORT == 50
SMA_LONG == 100
OVERSOLD == 30
OVERBOUGHT == 70
EXTREME_OVERSOLD == 20
EXTREME_OVERBOUGHT == 80
SecPerDay == 86400

TICKER_MAP ==
  [t \in {"BTC", "ETH", "SOL", "ADA", "DOT", "BNB"} |->
     CASE t = "BTC" -> "bitcoin"
       [] t = "ETH" -> "ethereum"
       [] t = "SOL" -> "solana"
       [] t = "ADA" -> "cardano"
       [] t = "DOT" -> "polkadot"
       [] OTHER     -> "binancecoin"]

PeriodoOptions == {90, 180, 365}

(***************************************************************************)
(* Bounds of the model and the provider's data                             *)
(***************************************************************************)
\* Points the provider adds after the backfilled history.
MaxTail == 3
\* A short listing: fewer than RSI_PERIOD points until the tail grows, and
\* fewer than SMA_SHORT rows after the RSI trimming.
ShortBackfill == 7
\* A long listing: with the tail, SMA_SHORT or more rows survive.
LongBackfill == 57

Min(a, b) == IF a < b THEN a ELSE b

(***************************************************************************)
(* Calendar: days since 1970-01-01 <-> proleptic Gregorian civil date      *)
(***************************************************************************)
DaysFromCivil(y, m, d) ==
  LET yy  == IF m <= 2 THEN y - 1 ELSE y
      era == yy \div 400
      yoe == yy - era * 400
      mp  == (m + 9) % 12
      doy == (153 * mp + 2) \div 5 + d - 1
      doe == yoe * 365 + yoe \div 4 - yoe \div 100 + doy
  IN  era * 146097 + doe - 719468

CivilFromDays(z0) ==
  LET z   == z0 + 719468
      era == z \div 146097
      doe == z - era * 146097
      yoe == (doe - doe \div 1460 + doe \div 36524 - doe \div 146096) \div 365
      doy == doe - (365 * yoe + yoe \div 4 - yoe \div 100)
      mp  == (5 * doy + 2) \div 153
      d   == doy - (153 * mp + 2) \div 5 + 1
      m   == IF mp < 10 THEN mp + 3 ELSE mp - 9
      y   == yoe + era * 400 + (IF m <= 2 THEN 1 ELSE 0)
  IN  [y |-> y, m |-> m, d |-> d]

\* datetime.fromtimestamp(point[0]/1000).date(), the server clock on UTC.
FromTimestampDate(t) == t \div SecPerDay

\* df.index.month
MonthOf(date) == CivilFromDays(date).m

\* idx.strftime('%Y-%m-%d'): the civil date the string spells.
Strftime(date) == CivilFromDays(date)

(***************************************************************************)
(* The provider                                                            *)
(***************************************************************************)
\* The last backfilled daily point, at 00:00 UTC.
BackfillEndDay == DaysFromCivil(2025, 1, 30)

BackfillKinds ==
  { [shape |-> "zigzag", len |-> ShortBackfill],
    [shape |-> "flat", len |-> ShortBackfill],
    [shape |-> "zigzag", len |-> LongBackfill] }

\* Seconds from one point to the next: later the same day, the next day,
\* or after an outage of 334 days.
Gaps == {SecPerDay \div 2, SecPerDay, 334 * SecPerDay}

TailPrices == {80, 90, 120}

LivePrices == {80, 120}

\* The tickers the user picks among.
Tickers == {"BTC", "ETH"}

BackfillPrice(shape, i) == IF shape = "flat" THEN 90 ELSE 100 + (i % 2)

Backfill(b) ==
  [i \in 1..b.len |->
     [t |-> (BackfillEndDay - (b.len - i)) * SecPerDay,
      price |-> BackfillPrice(b.shape, i)]]

AllPoints(m) == Backfill(m.backfill) \o m.tail

LastTime(m) ==
  IF Len(m.tail) > 0 THEN m.tail[Len(m.tail)].t ELSE BackfillEndDay * SecPerDay

\* market_chart?days=..&interval=daily: the last days+1 points on record.
Response(m, days) ==
  LET all == AllPoints(m)
      n   == Len(all)
  IN  IF n <= days + 1 THEN all ELSE SubSeq(all, n - days, n)

\* The bodies the provider may answer with, over the sidebar's periods.
Responses(m) == {Response(m, days) : days \in PeriodoOptions}

(***************************************************************************)
(* get_coingecko_data: the frame built from a successful response          *)
(***************************************************************************)
get_coingecko_data(resp) ==
  [i \in 1..Len(resp) |->
     [Date |-> FromTimestampDate(resp[i].t), Close |-> resp[i].price]]

(***************************************************************************)
(* calculate_rsi                                                           *)
(***************************************************************************)
NaN == [nan |-> TRUE, v |-> 0]
Num(x) == [nan |-> FALSE, v |-> x]

RECURSIVE SumTo(_, _, _)
SumTo(f, lo, hi) == IF hi < lo THEN 0 ELSE f[hi] + SumTo(f, lo, hi - 1)

\* delta.where(delta > 0, 0): the first delta is NaN and becomes 0 as well.
GainTerms(prices) ==
  [i \in 1..Len(prices) |->
     IF i > 1 /\ prices[i] - prices[i-1] > 0 THEN prices[i] - prices[i-1] ELSE 0]

\* delta.where(delta < 0, 0): terms are <= 0.
LossTerms(prices) ==
  [i \in 1..Len(prices) |->
     IF i > 1 /\ prices[i] - prices[i-1] < 0 THEN prices[i] - prices[i-1] ELSE 0]

\* The window sums of terms.rolling(window=w): rows before w have no value.
RollingSum(terms, w) ==
  [i \in 1..Len(terms) |-> IF i < w THEN 0 ELSE SumTo(terms, i - w + 1, i)]

\* round(x, 2) of x = num/den * 100, in hundredths, half to even.
RoundHundredths(num, den) ==
  LET q == (10000 * num) \div den
      r == (10000 * num) % den
  IN  IF 2 * r > den THEN q + 1
      ELSE IF 2 * r = den THEN q + (q % 2)
      ELSE q

\* Variant: a zero average loss leaves the value undefined.
RsiValue_undefined(g, l) ==
  IF l = 0 THEN NaN ELSE Num(RoundHundredths(g, g + l))

\* 100 - 100 / (1 + gain / loss) in IEEE arithmetic: 0/0 is NaN, x/0 is
\* infinite and saturates at 100.
RsiValue(g, l) ==
  IF g = 0 /\ l = 0 THEN NaN
  ELSE IF l = 0 THEN Num(10000)
  ELSE Num(RoundHundredths(g, g + l))

calculate_rsi(prices, period) ==
  LET gain == RollingSum(GainTerms(prices), period)
      loss == RollingSum(LossTerms(prices), period)
  IN  [i \in 1..Len(prices) |->
         IF i < period THEN NaN ELSE RsiValue(gain[i], 0 - loss[i])]

Closes(frame) == [i \in 1..Len(frame) |-> frame[i].Close]

\* df['RSI'] = calculate_rsi(df['Close']).round(2)
WithRSI(frame) ==
  LET rsi == calculate_rsi(Closes(frame), RSI_PERIOD)
  IN  [i \in 1..Len(frame) |->
         [Date |-> frame[i].Date, Close |-> frame[i].Close, RSI |-> rsi[i]]]

(***************************************************************************)
(* Trimming and the moving averages                                        *)
(***************************************************************************)
\* Close.rolling(window=w).mean(): undefined before row w.
RollingMean(closes, w) ==
  [i \in 1..Len(closes) |->
     IF i < w THEN [nan |-> TRUE, sum |-> 0, w |-> w]
     ELSE [nan |-> FALSE, sum |-> SumTo(closes, i - w + 1, i), w |-> w]]

\* 100 when 100 rows or more are left, otherwise min(50, len(df)).
LongWindow(n) == IF n >= SMA_LONG THEN SMA_LONG ELSE Min(SMA_SHORT, n)

DefinedRSI(row) == ~row.RSI.nan
DefinedSMA100(row) == ~row.SMA100.nan

\* df = df.dropna(); SMA50; SMA100; df = df.dropna(subset=['SMA100'])
Trim(frame) ==
  LET kept  == SelectSeq(frame, DefinedRSI)
      s50   == RollingMean(Closes(kept), SMA_SHORT)
      s100  == RollingMean(Closes(kept), LongWindow(Len(kept)))
      withS == [i \in 1..Len(kept) |->
                  [Date |-> kept[i].Date, Close |-> kept[i].Close,
                   RSI |-> kept[i].RSI, SMA50 |-> s50[i], SMA100 |-> s100[i]]]
  IN  SelectSeq(withS, DefinedSMA100)

(***************************************************************************)
(* Classification (lines 80-91)                                            *)
(***************************************************************************)
\* Comparisons of a close or a live price with a rolling mean.
Above(x, sma) == ~sma.nan /\ x * sma.w > sma.sum
Below(x, sma) == ~sma.nan /\ x * sma.w < sma.sum

IsOversold(rsi) == ~rsi.nan /\ rsi.v < OVERSOLD * 100
IsOverbought(rsi) == ~rsi.nan /\ rsi.v > OVERBOUGHT * 100
IsExtremeOversold(rsi) == ~rsi.nan /\ rsi.v < EXTREME_OVERSOLD * 100
IsExtremeOverbought(rsi) == ~rsi.nan /\ rsi.v > EXTREME_OVERBOUGHT * 100
IsUptrend(close, sma) == Above(close, sma)
\* Variant: downtrend as the negation of uptrend.
IsDowntrend_notup(close, sma) == ~Above(close, sma)
IsDowntrend(close, sma) == Below(close, sma)

ClassifyRow(row) ==
  LET os == IsOversold(row.RSI)
      ob == IsOverbought(row.RSI)
      up == IsUptrend(row.Close, row.SMA100)
      dn == IsDowntrend(row.Close, row.SMA100)
  IN  [Date |-> row.Date, Close |-> row.Close, RSI |-> row.RSI,
       SMA50 |-> row.SMA50, SMA100 |-> row.SMA100,
       oversold |-> os, overbought |-> ob,
       extreme_oversold |-> IsExtremeOversold(row.RSI),
       extreme_overbought |-> IsExtremeOverbought(row.RSI),
       uptrend |-> up, downtrend |-> dn,
       buy_uptrend |-> os /\ up, sell_downtrend |-> ob /\ dn,
       buy_risky |-> os /\ dn, sell_uptrend |-> ob /\ up,
       Month |-> MonthOf(row.Date)]

Classify(frame) == [i \in 1..Len(frame) |-> ClassifyRow(frame[i])]

(***************************************************************************)
(* Event aggregation (lines 93-111)                                        *)
(***************************************************************************)
Column(frame, name) == [i \in 1..Len(frame) |-> frame[i][name]]

\* df[flag].sum()
DayCount(x) == Cardinality({i \in 1..Len(x) : x[i]})

\* (x != x.shift()).cumsum(): the first row always differs from the NaN
\* that shift() puts before it.
RunIds(x) ==
  [i \in 1..Len(x) |-> Cardinality({j \in 1..i : j = 1 \/ x[j] # x[j-1]})]

\* Variant: events conflated with true days.
EventCount_days(x) == DayCount(x)

\* (x != x.shift()).cumsum()[x].nunique()
EventCount(x) == Cardinality({RunIds(x)[i] : i \in {k \in 1..Len(x) : x[k]}})

\* The rows of one groupby('Month') group, in frame order.
RECURSIVE GroupRows(_, _)
GroupRows(frame, m) ==
  IF Len(frame) = 0 THEN <<>>
  ELSE IF frame[1].Month = m THEN <<frame[1]>> \o GroupRows(Tail(frame), m)
  ELSE GroupRows(Tail(frame), m)

Months(frame) == {frame[i].Month : i \in 1..Len(frame)}

monthly_summary(frame) ==
  [m \in Months(frame) |->
     LET g == GroupRows(frame, m)
     IN  [Oversold_Events |-> EventCount(Column(g, "oversold")),
          Overbought_Events |-> EventCount(Column(g, "overbought")),
          Buy_Uptrend_Days |-> DayCount(Column(g, "buy_uptrend")),
          Sell_Downtrend_Days |-> DayCount(Column(g, "sell_downtrend"))]]

(***************************************************************************)
(* Interaction log (lines 113-129)                                         *)
(***************************************************************************)
Record(row, tipo, position) ==
  [Data |-> Strftime(row.Date), Tipo |-> tipo, Prezzo |-> row.Close,
   RSI |-> row.RSI.v, Posizione |-> position]

\* What one pass of the loop body appends for a row.
RowInteractions(row) ==
  IF row.buy_uptrend THEN
    <<Record(row, "Buy Uptrend",
             IF Above(row.Close, row.SMA100) THEN "Sopra SMA100" ELSE "Sotto SMA100")>>
  ELSE IF row.sell_downtrend THEN
    <<Record(row, "Sell Downtrend",
             IF Below(row.Close, row.SMA100) THEN "Sotto SMA100" ELSE "Sopra SMA100")>>
  ELSE IF row.buy_risky THEN
    <<Record(row, "Buy Risky (Downtrend)",
             IF Below(row.Close, row.SMA100) THEN "Sotto SMA100" ELSE "Sopra SMA100")>>
  ELSE IF row.sell_uptrend THEN
    <<Record(row, "Sell Uptrend (Pullback)",
             IF Above(row.Close, row.SMA100) THEN "Sopra SMA100" ELSE "Sotto SMA100")>>
  ELSE <<>>

RECURSIVE Interactions(_)
Interactions(frame) ==
  IF Len(frame) = 0 THEN <<>>
  ELSE RowInteractions(frame[1]) \o Interactions(Tail(frame))

(***************************************************************************)
(* Live signal (lines 134-145)                                             *)
(***************************************************************************)
\* Variant: the trend of the latest close instead of the live price.
current_uptrend_close(p, latest) == Above(latest.Close, latest.SMA100)
current_uptrend(p, latest) == Above(p, latest.SMA100)

current_position(p, latest) ==
  IF Above(p, latest.SMA100) THEN "Sopra SMA100" ELSE "Sotto SMA100"

Signal(p, latest) ==
  IF latest.RSI.v < OVERSOLD * 100 /\ current_uptrend(p, latest)
    THEN "Buy (Oversold in uptrend)"
  ELSE IF latest.RSI.v > OVERBOUGHT * 100 /\ ~current_uptrend(p, latest)
    THEN "Sell (Overbought in downtrend)"
  ELSE IF latest.RSI.v > OVERBOUGHT * 100
    THEN "Sell (Possibile pullback in uptrend)"
  ELSE "Hold (Momentum neutro o trend stabile)"

(***************************************************************************)
(* The script as a state machine                                           *)
(*                                                                         *)
(* market     the provider's record of the asset: a backfilled history and *)
(*            the points added since                                       *)
(* pc         "idle": the page shows no run; "hist" / "live": the run is   *)
(*            inside requests.get of get_coingecko_data / get_live_price;  *)
(*            "done": the run rendered its results; "stopped": st.stop()   *)
(*            ended the script; "failed": the except clause reported       *)
(* crypto_id  the provider id of the selected ticker                       *)
(* calls      the provider calls of the current run with their status      *)
(* errors     the st.error messages of the current run                     *)
(* shown      what else the current run displayed, in order                *)
(* raw        the frame after line 69 (Date, Close, RSI)                   *)
(* df         the frame after trimming, classified once the live price is  *)
(*            in                                                           *)
(* out        the values the run computed for display                      *)
(***************************************************************************)
StatusCodes == {200, 429}

\* Variant: only server errors count as failures.
IsFailure_server(status) == status >= 500

\* response.status_code != 200
IsFailure(status) == status # 200

NoOut == [ready |-> FALSE]

Ended == {"idle", "done", "stopped", "failed"}

Init ==
  /\ market \in [backfill : BackfillKinds, tail : {<<>>}]
  /\ pc = "idle"
  /\ crypto_id = TICKER_MAP["BTC"]
  /\ calls = <<>>
  /\ errors = <<>>
  /\ shown = <<>>
  /\ raw = <<>>
  /\ df = <<>>
  /\ live_price = 0
  /\ out = NoOut

\* The provider records one more point of the asset.
MarketTick(gap, price) ==
  /\ pc = "idle"
  /\ Len(market.tail) < MaxTail
  /\ market' = [market EXCEPT !.tail =
                  Append(@, [t |-> LastTime(market) + gap, price |-> price])]
  /\ UNCHANGED <<pc, crypto_id, calls, errors, shown, raw, df, live_price, out>>

\* "Analizza Ora" with a ticker selected: the script reruns from the top and
\* enters get_coingecko_data.
ClickAnalizza(ticker) ==
  /\ pc \in Ended
  /\ pc' = "hist"
  /\ crypto_id' = TICKER_MAP[ticker]
  /\ calls' = <<>>
  /\ errors' = <<>>
  /\ shown' = <<>>
  /\ raw' = <<>>
  /\ df' = <<>>
  /\ live_price' = 0
  /\ out' = NoOut
  /\ UNCHANGED market

\* "Pulisci Cache": the cache is cleared and the script reruns with no run
\* requested, so the page shows no run.
PulisciCache ==
  /\ pc \in Ended \ {"idle"}
  /\ pc' = "idle"
  /\ calls' = <<>>
  /\ errors' = <<>>
  /\ shown' = <<>>
  /\ raw' = <<>>
  /\ df' = <<>>
  /\ live_price' = 0
  /\ out' = NoOut
  /\ UNCHANGED <<market, crypto_id>>

\* get_coingecko_data returns or stops (lines 20-31), then lines 69-76.
HistResponse(status, resp) ==
  /\ pc = "hist"
  /\ calls' = Append(calls, [op |-> "history", status |-> status])
  /\ IF IsFailure(status)
       THEN /\ errors' = Append(errors, [op |-> "history", asset |-> crypto_id])
            /\ pc' = "stopped"
            /\ UNCHANGED <<raw, df>>
       ELSE /\ raw' = WithRSI(get_coingecko_data(resp))
            /\ df' = Trim(raw')
            /\ pc' = "live"
            /\ UNCHANGED errors
  /\ UNCHANGED <<market, crypto_id, shown, live_price, out>>

\* Lines 80-132 and 134-207 on a frame with at least one row.
Results(frame, p) ==
  LET latest == frame[Len(frame)]
  IN  [ready |-> TRUE,
       latest_rsi |-> latest.RSI.v,
       current_position |-> current_position(p, latest),
       signal |-> Signal(p, latest),
       oversold_days |-> DayCount(Column(frame, "oversold")),
       overbought_days |-> DayCount(Column(frame, "overbought")),
       oversold_events |-> EventCount(Column(frame, "oversold")),
       overbought_events |-> EventCount(Column(frame, "overbought")),
       extreme_oversold_days |-> DayCount(Column(frame, "extreme_oversold")),
       extreme_overbought_days |-> DayCount(Column(frame, "extreme_overbought")),
       buy_uptrend_count |-> DayCount(Column(frame, "buy_uptrend")),
       sell_downtrend_count |-> DayCount(Column(frame, "sell_downtrend")),
       buy_risky_count |-> DayCount(Column(frame, "buy_risky")),
       sell_uptrend_count |-> DayCount(Column(frame, "sell_uptrend")),
       monthly_summary |-> monthly_summary(frame),
       interactions |-> Interactions(frame)]

\* The st.* calls of lines 132-207, in order.
Rendered(o) ==
  <<"info_interactions", "metrics", "monthly_summary">>
  \o (IF o.oversold_days > 0 THEN <<"oversold_table">> ELSE <<"oversold_none">>)
  \o (IF o.overbought_days > 0 THEN <<"overbought_table">> ELSE <<"overbought_none">>)
  \o (IF o.extreme_oversold_days + o.extreme_overbought_days > 0
        THEN <<"extreme_table", "extreme_info">> ELSE <<"extreme_none">>)
  \o (IF Len(o.interactions) > 0
        THEN <<"last_interaction_info", "interactions_table">>
        ELSE <<"interactions_none">>)

\* get_live_price returns or stops (lines 35-39), then lines 80-207.  On an
\* empty frame df.iloc[-1] raises IndexError after the interaction count
\* was shown, and the except clause of line 209 reports it.
LiveResponse(status, p) ==
  /\ pc = "live"
  /\ calls' = Append(calls, [op |-> "live", status |-> status])
  /\ IF IsFailure(status)
       THEN /\ errors' = Append(errors, [op |-> "live", asset |-> crypto_id])
            /\ pc' = "stopped"
            /\ UNCHANGED <<df, live_price, shown, out>>
       ELSE /\ live_price' = p
            /\ df' = Classify(df)
            /\ IF Len(df) = 0
                 THEN /\ shown' = <<"info_interactions">>
                      /\ errors' = Append(errors, [op |-> "exception", asset |-> "IndexError"])
                      /\ pc' = "failed"
                      /\ UNCHANGED out
                 ELSE /\ out' = Results(df', p)
                      /\ shown' = Rendered(out')
                      /\ pc' = "done"
                      /\ UNCHANGED errors
  /\ UNCHANGED <<market, crypto_id, raw>>

Next ==
  \/ \E gap \in Gaps, price \in TailPrices : MarketTick(gap, price)
  \/ \E ticker \in Tickers : ClickAnalizza(ticker)
  \/ PulisciCache
  \/ \E status \in StatusCodes, resp \in Responses(market) : HistResponse(status, resp)
  \/ \E status \in StatusCodes, p \in LivePrices : LiveResponse(status, p)

Spec == Init /\ [][Next]_vars

(***************************************************************************)
(* Properties                                                              *)
(***************************************************************************)
\* A run that got both answers and went through lines 80-207.
Finished == pc \in {"done", "failed"}

Flags == {"oversold", "overbought"}
Composites == {"buy_uptrend", "sell_downtrend", "buy_risky", "sell_uptrend"}

TipoOf(flag) ==
  CASE flag = "buy_uptrend" -> "Buy Uptrend"
    [] flag = "sell_downtrend" -> "Sell Downtrend"
    [] flag = "buy_risky" -> "Buy Risky (Downtrend)"
    [] OTHER -> "Sell Uptrend (Pullback)"

\* C1: the live signal is the first match of (1) r < 30 and p > s: Buy,
\* (2) r > 70 and p <= s: Sell (overbought in downtrend), (3) r > 70: Sell
\* (possible pullback), (4) Hold, with r the latest RSI, s the latest long
\* SMA and p the live price; the position is "above" exactly when p > s.
C1_LiveSignal ==
  pc = "done" =>
    LET latest == df[Len(df)]
        r  == latest.RSI.v
        gt == live_price * latest.SMA100.w > latest.SMA100.sum
        le == live_price * latest.SMA100.w <= latest.SMA100.sum
    IN  /\ out.signal =
             (IF r < 3000 /\ gt THEN "Buy (Oversold in uptrend)"
              ELSE IF r > 7000 /\ le THEN "Sell (Overbought in downtrend)"
              ELSE IF r > 7000 THEN "Sell (Possibile pullback in uptrend)"
              ELSE "Hold (Momentum neutro o trend stabile)")
        /\ (out.current_position = "Sopra SMA100") <=> gt
        /\ out.current_position \in {"Sopra SMA100", "Sotto SMA100"}

\* The boundary: an overbought latest day and a live price equal to the SMA.
C1_Witness ==
  /\ pc = "done"
  /\ df[Len(df)].RSI.v > 7000
  /\ live_price * df[Len(df)].SMA100.w = df[Len(df)].SMA100.sum
  /\ out.signal = "Sell (Overbought in downtrend)"

\* C2: a fetch that returns a non-success status aborts the run: the script
\* has stopped, that call is the last one of the run and the only call of
\* its kind, exactly one error names the failed fetch and the asset, and no
\* metric or table is displayed; after a failed historical fetch no live
\* fetch was issued.
C2_FetchFailureAborts ==
  /\ \A i \in 1..Len(calls) :
       calls[i].status # 200 =>
         /\ pc = "stopped"
         /\ i = Len(calls)
         /\ errors = <<[op |-> calls[i].op, asset |-> crypto_id]>>
         /\ shown = <<>>
         /\ out = NoOut
         /\ (calls[i].op = "history" => Len(calls) = 1 /\ df = <<>> /\ raw = <<>>)
  /\ \A i, j \in 1..Len(calls) : calls[i].op = calls[j].op => i = j
  /\ pc = "stopped" => Len(calls) > 0 /\ calls[Len(calls)].status # 200

\* The live fetch failed after the history was fetched and trimmed.
C2_Witness ==
  /\ pc = "stopped"
  /\ Len(calls) = 2
  /\ calls[2] = [op |-> "live", status |-> 429]
  /\ Len(df) > 0
  /\ errors = <<[op |-> "live", asset |-> "ethereum"]>>

RECURSIVE SumOver(_, _)
SumOver(f, S) ==
  IF S = {} THEN 0
  ELSE LET x == CHOOSE y \in S : TRUE IN f[x] + SumOver(f, S \ {x})

\* C3: for each flag, the per-month event counts of the monthly table add
\* up to at least the event count over the whole series.
C3_MonthlySplitNeverLoses ==
  pc = "done" =>
    /\ SumOver([m \in DOMAIN out.monthly_summary |->
                  out.monthly_summary[m].Oversold_Events],
               DOMAIN out.monthly_summary) >= out.oversold_events
    /\ SumOver([m \in DOMAIN out.monthly_summary |->
                  out.monthly_summary[m].Overbought_Events],
               DOMAIN out.monthly_summary) >= out.overbought_events

HasConsecutive(flag) ==
  \E i \in 1..(Len(df) - 1) : df[i][flag] /\ df[i+1][flag]

\* C4: for each flag the event count is at most the day count, and they
\* are equal exactly when no two consecutive rows are both true.
C4_EventsAtMostDays ==
  pc = "done" =>
    /\ out.oversold_events <= out.oversold_days
    /\ out.overbought_events <= out.overbought_days
    /\ (out.oversold_events = out.oversold_days) <=> ~HasConsecutive("oversold")
    /\ (out.overbought_events = out.overbought_days) <=> ~HasConsecutive("overbought")

\* A run of two oversold rows counted as one event.
C4_Witness ==
  /\ pc = "done"
  /\ HasConsecutive("oversold")
  /\ out.oversold_events < out.oversold_days
  /\ out.oversold_events > 0

AnyComposite(row) == \E c \in Composites : row[c]

\* C5: every record's category is a composite flag true on the record's
\* date, no two records carry the same date, the records are in ascending
\* date order, and there is exactly one record for each day on which a
\* composite flag holds.
C5_InteractionLog ==
  pc = "done" =>
    LET log == out.interactions
    IN  /\ \A k \in 1..Len(log) :
             \E i \in 1..Len(df), c \in Composites :
               /\ Strftime(df[i].Date) = log[k].Data
               /\ log[k].Tipo = TipoOf(c)
               /\ df[i][c]
        /\ \A k, l \in 1..Len(log) : log[k].Data = log[l].Data => k = l
        /\ \A k \in 1..(Len(log) - 1) :
             DaysFromCivil(log[k].Data.y, log[k].Data.m, log[k].Data.d)
               <= DaysFromCivil(log[k+1].Data.y, log[k+1].Data.m, log[k+1].Data.d)
        /\ \A i \in 1..Len(df) :
             AnyComposite(df[i]) =>
               Cardinality({k \in 1..Len(log) : log[k].Data = Strftime(df[i].Date)}) = 1

AllOK == Len(calls) = 2 /\ \A i \in 1..Len(calls) : calls[i].status = 200

\* C6: when trimming leaves no rows, the run finishes with an explicit
\* empty result (zero events, empty log) and reports no error.
C6_EmptyIsGraceful ==
  (AllOK /\ Len(df) = 0) =>
    /\ pc = "done"
    /\ errors = <<>>
    /\ out.ready
    /\ out.oversold_events = 0
    /\ out.overbought_events = 0
    /\ out.interactions = <<>>

\* C7: the frame built from the provider's points has strictly increasing
\* dates, no two points on one calendar date.
C7_StrictDates ==
  \A i \in 1..(Len(raw) - 1) : raw[i].Date < raw[i+1].Date

Trimmed == pc \in {"live", "done", "failed"} \/ (pc = "stopped" /\ Len(calls) = 2)

DateClose(frame) ==
  [i \in 1..Len(frame) |-> [Date |-> frame[i].Date, Close |-> frame[i].Close]]

\* C8: the rows dropped are exactly the first oscillator_period rows and the
\* first trend_window - 1 rows of the rest (trend_window the realised long
\* window), and every retained row has an oscillator value, a short SMA and
\* a long SMA.
C8_TrimmingInvariant ==
  Trimmed =>
    LET n    == Len(raw)
        rest == IF n > RSI_PERIOD THEN n - RSI_PERIOD ELSE 0
        w    == IF rest >= SMA_LONG THEN SMA_LONG ELSE Min(SMA_SHORT, rest)
    IN  /\ DateClose(df) =
             (IF rest = 0 THEN <<>> ELSE DateClose(SubSeq(raw, RSI_PERIOD + w, n)))
        /\ \A i \in 1..Len(df) :
             ~df[i].RSI.nan /\ ~df[i].SMA50.nan /\ ~df[i].SMA100.nan

\* The sums of the gains and of the losses over the period price changes
\* that end at row i of the fetched frame.
GainOver(i) ==
  SumOver([j \in (i - RSI_PERIOD + 1)..i |->
             IF raw[j].Close > raw[j-1].Close THEN raw[j].Close - raw[j-1].Close ELSE 0],
          (i - RSI_PERIOD + 1)..i)
LossOver(i) ==
  SumOver([j \in (i - RSI_PERIOD + 1)..i |->
             IF raw[j].Close < raw[j-1].Close THEN raw[j-1].Close - raw[j].Close ELSE 0],
          (i - RSI_PERIOD + 1)..i)
FullWindow(i) == i > RSI_PERIOD /\ i <= Len(raw)

\* C9 as stated: on every day with a full window of price changes and an
\* average loss of 0 the oscillator is defined and equals 100.
C9_ZeroLossIs100 ==
  \A i \in 1..Len(raw) :
    (FullWindow(i) /\ LossOver(i) = 0) => raw[i].RSI = Num(10000)

\* C9 as amended: with an average loss of 0 the oscillator equals 100 when
\* the average gain is positive, and is undefined when the average gain is
\* 0 as well; a strictly increasing window is a case of the first.
C9_ZeroLossPositiveGainIs100 ==
  \A i \in 1..Len(raw) :
    (FullWindow(i) /\ LossOver(i) = 0) =>
      /\ GainOver(i) > 0 => raw[i].RSI = Num(10000)
      /\ GainOver(i) = 0 => raw[i].RSI.nan

C9_Witness ==
  \E i \in 1..Len(raw) :
    /\ FullWindow(i)
    /\ LossOver(i) = 0
    /\ GainOver(i) > 0
    /\ raw[i].RSI = Num(10000)

AtMostOne(row, names) == Cardinality({c \in names : row[c]}) <= 1

\* C10: on every classified day uptrend and downtrend are never both true,
\* exactly one holds when close differs from the long SMA and neither when
\* they are equal; oversold and overbought are never both true; at most one
\* of the four composite flags is true.
C10_ClassifierExclusive ==
  pc = "done" =>
    \A i \in 1..Len(df) :
      LET row == df[i]
          eq  == row.Close * row.SMA100.w = row.SMA100.sum
      IN  /\ ~(row.uptrend /\ row.downtrend)
          /\ ~eq => (row.uptrend \/ row.downtrend)
          /\ eq => (~row.uptrend /\ ~row.downtrend)
          /\ ~(row.oversold /\ row.overbought)
          /\ AtMostOne(row, Composites)
          /\ row.buy_uptrend <=> (row.RSI.v < 3000 /\ row.Close * row.SMA100.w > row.SMA100.sum)
          /\ row.sell_downtrend <=> (row.RSI.v > 7000 /\ row.Close * row.SMA100.w < row.SMA100.sum)
          /\ row.buy_risky <=> (row.RSI.v < 3000 /\ row.Close * row.SMA100.w < row.SMA100.sum)
          /\ row.sell_uptrend <=> (row.RSI.v > 7000 /\ row.Close * row.SMA100.w > row.SMA100.sum)

\* A series with a composite day, a day with none, and a day on its SMA.
C10_Witness ==
  /\ pc = "done"
  /\ \E i \in 1..Len(df) : df[i].buy_risky
  /\ \E i \in 1..Len(df) : df[i].sell_uptrend
  /\ \E i \in 1..Len(df) : ~AnyComposite(df[i])

====
